---- MODULE Spec2Model ----
(***************************************************************************)
(* Model of the CSV -> MongoDB ingestion service (src/app/etl.py):         *)
(*   - normalize_record and its helpers as operators over tagged Python    *)
(*     values (strings are sequences of one-character strings);            *)
(*   - main() as a state machine over the watched directory, the patient   *)
(*     collection and the ingestion_logs ledger.                           *)
(***************************************************************************)
EXTENDS Integers, Sequences, FiniteSets, TLC

VARIABLES
    pc,        \* position of main(): "start", "scan", "hash", "parse", "write", "ledger", "sleep", "dead"
    dir,       \* watched directory: basename -> content id, or NoFile
    files,     \* the sorted list of the running poll cycle (basenames)
    idx,       \* index in files of the file the for loop is at
    sha,       \* local "sha" of the running iteration
    docs,      \* local "docs" of the running iteration
    store,     \* the patient collection, in insertion order
    ledger,    \* the ingestion_logs collection, in insertion order
    clock,     \* datetime.utcnow(), advanced by the sleep
    faults,    \* transient errors and crashes injected so far
    envSteps,  \* changes made to the watched directory so far
    hist,      \* observations for the properties (not program state): of the running poll
               \* cycle seen, skipped, failed, partial; of the whole run written (the
               \* (file, sha) written in full) and cut (the (file, sha) last cut short
               \* and not completed since)
    row,       \* input row of normalize_record (NormSpec)
    out        \* result of normalize_record on row (NormSpec)

vars == <<pc, dir, files, idx, sha, docs, store, ledger, clock, faults, envSteps, hist, row, out>>

----------------------------------------------------------------------------
(* Python values, tagged by type.                                          *)

None == [t |-> "none"]
S(s) == [t |-> "str", s |-> s]
I(n) == [t |-> "int", n |-> n]
Date(y, m, d) == [t |-> "date", d |-> <<y, m, d>>]
Ts(n) == [t |-> "ts", n |-> n]
L(l) == [t |-> "list", l |-> l]
M(m) == [t |-> "dict", m |-> m]
EmptyMap == [k \in {} |-> None]
Raised == [t |-> "raised"]

IsNone(v) == v.t = "none"
IsEmptyStr(v) == v.t = "str" /\ v.s = <<>>

\* bool(v): None, "" and 0 are falsy
Truthy(v) ==
    CASE v.t = "none" -> FALSE
      [] v.t = "str" -> v.s # <<>>
      [] v.t = "int" -> v.n # 0
      [] OTHER -> TRUE

\* a or b
Or(a, b) == IF Truthy(a) THEN a ELSE b

\* v not in [None, ""]
NotNoneOrEmpty(v) == ~IsNone(v) /\ ~IsEmptyStr(v)

\* pd.isna(v) on the scalars modelled
IsNa(v) == IsNone(v)

----------------------------------------------------------------------------
(* Characters and str methods.                                             *)

LowerChars == {"a", "b", "c", "g", "l", "m"}
UpperChars == {"A", "B", "C", "G", "L", "M"}
DigitChars == {"0", "1", "2", "3", "5"}
Delims == {"|", ",", ";"}

ToUpper(c) ==
    CASE c = "a" -> "A" [] c = "b" -> "B" [] c = "c" -> "C"
      [] c = "g" -> "G" [] c = "l" -> "L" [] c = "m" -> "M" [] OTHER -> c

ToLower(c) ==
    CASE c = "A" -> "a" [] c = "B" -> "b" [] c = "C" -> "c"
      [] c = "G" -> "g" [] c = "L" -> "l" [] c = "M" -> "m" [] OTHER -> c

IsLetter(c) == c \in LowerChars \cup UpperChars
IsDigit(c) == c \in DigitChars
IsSpace(c) == c = " "

DigitVal(c) ==
    CASE c = "0" -> 0 [] c = "1" -> 1 [] c = "2" -> 2 [] c = "3" -> 3 [] c = "5" -> 5 [] OTHER -> 0

\* s[a..b], 1-based, empty when a > b
Slice(s, a, b) == [i \in 1..(b - a + 1) |-> s[a + i - 1]]

AllSpace(s) == \A i \in 1..Len(s) : IsSpace(s[i])
AllDigits(s) == Len(s) > 0 /\ \A i \in 1..Len(s) : IsDigit(s[i])

\* str.strip()
Strip(s) ==
    IF AllSpace(s) THEN <<>>
    ELSE LET a == CHOOSE i \in 1..Len(s) : ~IsSpace(s[i]) /\ \A j \in 1..(i - 1) : IsSpace(s[j])
             b == CHOOSE i \in 1..Len(s) : ~IsSpace(s[i]) /\ \A j \in (i + 1)..Len(s) : IsSpace(s[j])
         IN Slice(s, a, b)

\* str.title(): a letter is upper-cased after a non-letter, lower-cased after a letter
Title(s) ==
    [i \in 1..Len(s) |->
        IF ~IsLetter(s[i]) THEN s[i]
        ELSE IF i > 1 /\ IsLetter(s[i - 1]) THEN ToLower(s[i]) ELSE ToUpper(s[i])]

\* str.upper()
Upper(s) == [i \in 1..Len(s) |-> ToUpper(s[i])]

RECURSIVE SplitOn(_, _)
\* re.split(r"[|,;]", s) with seps = Delims: empty pieces are kept
SplitOn(s, seps) ==
    IF \A i \in 1..Len(s) : s[i] \notin seps THEN <<s>>
    ELSE LET p == CHOOSE i \in 1..Len(s) : s[i] \in seps /\ \A j \in 1..(i - 1) : s[j] \notin seps
         IN <<Slice(s, 1, p - 1)>> \o SplitOn(Slice(s, p + 1, Len(s)), seps)

RECURSIVE DropEmpty(_)
DropEmpty(l) ==
    IF l = <<>> THEN <<>>
    ELSE IF Head(l) = <<>> THEN DropEmpty(Tail(l)) ELSE <<Head(l)>> \o DropEmpty(Tail(l))

\* str.split(): on runs of whitespace, no empty pieces
SplitWs(s) == DropEmpty(SplitOn(s, {" "}))

RECURSIVE JoinSp(_)
\* " ".join(parts)
JoinSp(parts) ==
    IF parts = <<>> THEN <<>>
    ELSE IF Len(parts) = 1 THEN parts[1]
    ELSE parts[1] \o <<" ">> \o JoinSp(Tail(parts))

RECURSIVE DigitsToInt(_)
DigitsToInt(s) == IF s = <<>> THEN 0 ELSE 10 * DigitsToInt(Slice(s, 1, Len(s) - 1)) + DigitVal(s[Len(s)])

\* str(v) for the scalars modelled (ints are single digits)
Str(v) ==
    CASE v.t = "str" -> v.s
      [] v.t = "int" -> <<CHOOSE c \in DigitChars : DigitVal(c) = v.n>>
      [] OTHER -> <<>>

----------------------------------------------------------------------------
(* parse_medications, to_int_safe, _split_name, parse_date.                *)

Units == {<<"m", "g">>, <<"m", "c", "g">>, <<"g">>, <<"m", "l">>}

\* \d+(?:\.\d+)?
IsNumber(x) ==
    \/ AllDigits(x)
    \/ \E d \in 1..Len(x) :
          x[d] = "." /\ AllDigits(Slice(x, 1, d - 1)) /\ AllDigits(Slice(x, d + 1, Len(x)))

\* \d+(?:\.\d+)?\s*(?:mg|mcg|g|ml)
IsDosage(y) ==
    \E a \in 1..Len(y) : \E b \in a..Len(y) :
        /\ IsNumber(Slice(y, 1, a))
        /\ AllSpace(Slice(y, a + 1, b))
        /\ Slice(y, b + 1, Len(y)) \in Units

\* [A-Za-z][\w\s\-\/]+?
IsMedName(x) ==
    /\ Len(x) >= 2
    /\ IsLetter(x[1])
    /\ \A i \in 2..Len(x) : IsLetter(x[i]) \/ IsDigit(x[i]) \/ IsSpace(x[i]) \/ x[i] \in {"_", "-", "/"}

\* the positions i at which the name group can end with the dosage group matching
\* the rest of the (stripped) token: p[i+1..j] is \s+ and p[j+1..] the dosage
DosageSplits(p) ==
    {ij \in (1..Len(p)) \X (1..Len(p)) :
        /\ ij[1] < ij[2] /\ ij[2] < Len(p)
        /\ IsMedName(Slice(p, 1, ij[1]))
        /\ AllSpace(Slice(p, ij[1] + 1, ij[2]))
        /\ IsDosage(Slice(p, ij[2] + 1, Len(p)))}

\* one token of parse_medications, already stripped and non-empty
MedEntry(p) ==
    IF DosageSplits(p) # {}
    THEN LET ij == CHOOSE x \in DosageSplits(p) : \A y \in DosageSplits(p) : x[1] <= y[1]
         IN M([name |-> S(Strip(Slice(p, 1, ij[1]))), dosage |-> S(Strip(Slice(p, ij[2] + 1, Len(p))))])
    ELSE M([name |-> S(p), dosage |-> None])

RECURSIVE MedEntries(_)
MedEntries(parts) ==
    IF parts = <<>> THEN <<>>
    ELSE LET p == Strip(Head(parts))
         IN IF p = <<>> THEN MedEntries(Tail(parts))
            ELSE <<MedEntry(p)>> \o MedEntries(Tail(parts))

parse_medications(meds_str) ==
    IF IsNa(meds_str) \/ Strip(Str(meds_str)) = <<>> THEN L(<<>>)
    ELSE L(MedEntries(SplitOn(Str(meds_str), Delims)))

\* int(float(v)); a string that float() rejects gives None
to_int_safe(v) ==
    IF IsNa(v) \/ IsEmptyStr(v) THEN None
    ELSE IF v.t = "int" THEN I(v.n)
    ELSE LET x == Strip(v.s)
         IN IF AllDigits(x) THEN I(DigitsToInt(x))
            ELSE IF IsNumber(x)
                 THEN LET d == CHOOSE k \in 1..Len(x) : x[k] = "."
                      IN I(DigitsToInt(Slice(x, 1, d - 1)))
                 ELSE None

Pair(a, b) == [t |-> "pair", first |-> a, last |-> b]

\* returns the pair (first, last), or Raised for parts[-1] on an empty list
split_name(fullname) ==
    IF ~Truthy(fullname) \/ IsNa(fullname) THEN Pair(None, None)
    ELSE LET parts == SplitWs(Strip(Str(fullname)))
         IN IF Len(parts) = 1 THEN Pair(S(Title(parts[1])), None)
            ELSE IF Len(parts) = 0 THEN Raised
            ELSE Pair(S(Title(JoinSp(SubSeq(parts, 1, Len(parts) - 1)))), S(Title(parts[Len(parts)])))

\* "%Y-%m-%d" on dddd-dd-dd
IsIsoDate(s) ==
    /\ Len(s) = 10
    /\ s[5] = "-" /\ s[8] = "-"
    /\ \A i \in {1, 2, 3, 4, 6, 7, 9, 10} : IsDigit(s[i])
    /\ DigitsToInt(Slice(s, 6, 7)) \in 1..12
    /\ DigitsToInt(Slice(s, 9, 10)) \in 1..31

\* parse_date on None, blank strings, "%Y-%m-%d" strings and integers (which
\* pd.to_datetime reads as nanoseconds since the epoch).  Strings of the other
\* three formats and strings only pd.to_datetime accepts are not inputs of the model.
parse_date(x) ==
    IF IsNa(x) \/ Strip(Str(x)) = <<>> THEN None
    ELSE IF x.t = "str" /\ IsIsoDate(x.s)
         THEN Date(DigitsToInt(Slice(x.s, 1, 4)), DigitsToInt(Slice(x.s, 6, 7)), DigitsToInt(Slice(x.s, 9, 10)))
    ELSE IF x.t = "int" THEN Date(1970, 1, 1)
    ELSE None

----------------------------------------------------------------------------
(* normalize_record.                                                       *)

\* row.get(col)
Get(r, col) == IF col \in DOMAIN r THEN r[col] ELSE None

RECURSIVE OrChain(_, _)
\* row.get(c1) or row.get(c2) or ... : the first truthy value, else the last one
OrChain(r, cols) ==
    IF Len(cols) = 1 THEN Get(r, cols[1])
    ELSE Or(Get(r, cols[1]), OrChain(r, Tail(cols)))

FirstAliases == <<"FirstName", "first_name", "First Name", "firstname">>
LastAliases == <<"LastName", "last_name", "Last Name", "lastname">>
PidAliases == <<"PatientID", "patient_id", "id", "ID">>
GenderAliases == <<"Gender", "sex">>
DobAliases == <<"DateOfBirth", "dob", "Date of Birth">>
AgeAliases == <<"Age", "age">>
DoaAliases == <<"DateOfAdmission", "admission_date", "Date of Admission">>
HospitalAliases == <<"Hospital", "hospital">>
DoctorAliases == <<"Doctor", "doctor">>
ConditionAliases == <<"MedicalCondition", "Medical Condition", "Condition", "medical_condition">>
MedsAliases == <<"Medications", "Medication", "medications">>
AllergiesAliases == <<"Allergies", "allergies">>
CityAliases == <<"Address_City", "City">>
StateAliases == <<"Address_State", "State">>
ZipAliases == <<"Address_Zip", "Zip", "PostalCode">>
CountryAliases == <<"Country", "country">>

\* str(v).strip().title() if v not in [None, ""] else None
TitleField(v) == IF NotNoneOrEmpty(v) THEN S(Title(Strip(Str(v)))) ELSE None
\* str(v).strip().upper() if v not in [None, ""] else None
UpperField(v) == IF NotNoneOrEmpty(v) THEN S(Upper(Strip(Str(v)))) ELSE None
\* str(v).strip() if v not in [None, ""] else None
StripField(v) == IF NotNoneOrEmpty(v) THEN S(Strip(Str(v))) ELSE None

AllergyList(v) ==
    IF NotNoneOrEmpty(v) /\ ~IsNa(v)
    THEN LET parts == SplitOn(Str(v), Delims)
         IN L([i \in 1..Len(parts) |-> S(Title(Strip(parts[i])))])
    ELSE L(<<>>)

\* v not in [None, [], {}]
KeptByPrune(v) ==
    ~(\/ v.t = "none"
      \/ (v.t = "list" /\ v.l = <<>>)
      \/ (v.t = "dict" /\ DOMAIN v.m = {}))

RECURSIVE prune(_)
prune(obj) ==
    IF obj.t = "dict"
    THEN M([k \in {k \in DOMAIN obj.m : KeptByPrune(obj.m[k])} |-> prune(obj.m[k])])
    ELSE IF obj.t = "list"
    THEN LET kept == SelectSeq(obj.l, KeptByPrune)
         IN L([i \in 1..Len(kept) |-> prune(kept[i])])
    ELSE obj

\* the first/last pair after lines 59-62, or Raised
NamePair(r) ==
    LET first == OrChain(r, FirstAliases)
        last == OrChain(r, LastAliases)
    IN IF (~Truthy(first) /\ ~Truthy(last)) /\ Truthy(Get(r, "Name"))
       THEN split_name(Get(r, "Name"))
       ELSE Pair(first, last)

\* the dict built at lines 95-121
BuildDoc(r, fl, base, now) ==
    M([patient_id |-> StripField(OrChain(r, PidAliases)),
       name |-> M([first |-> TitleField(fl.first), last |-> TitleField(fl.last)]),
       gender |-> TitleField(OrChain(r, GenderAliases)),
       dob |-> parse_date(OrChain(r, DobAliases)),
       age |-> to_int_safe(OrChain(r, AgeAliases)),
       admission |-> M([date |-> parse_date(OrChain(r, DoaAliases)),
                        hospital |-> TitleField(OrChain(r, HospitalAliases)),
                        doctor |-> TitleField(OrChain(r, DoctorAliases))]),
       medical_condition |-> TitleField(OrChain(r, ConditionAliases)),
       medications |-> parse_medications(OrChain(r, MedsAliases)),
       allergies |-> AllergyList(OrChain(r, AllergiesAliases)),
       address |-> M([city |-> TitleField(OrChain(r, CityAliases)),
                      state |-> UpperField(OrChain(r, StateAliases)),
                      zip |-> StripField(OrChain(r, ZipAliases)),
                      country |-> TitleField(OrChain(r, CountryAliases))]),
       source_file |-> [t |-> "file", f |-> base],
       ingested_at |-> Ts(now)])

\* normalize_record(row, source_file) at time now; base is os.path.basename(source_file)
normalize_record(r, base, now) ==
    LET fl == NamePair(r)
    IN IF fl.t = "raised" THEN Raised ELSE prune(BuildDoc(r, fl, base, now))

----------------------------------------------------------------------------
(* Inputs of normalize_record: rows of at most MaxCols columns.            *)

MaxCols == 2

Unset == [t |-> "unset"]

Blank == S(<<>>)
Spaces == S(<<" ">>)
IsoDay == S(<<"2", "0", "2", "3", "-", "0", "5", "-", "0", "1">>)

TextValues == {Blank, Spaces, S(<<" ", "a", "b">>), I(0), I(5)}
NameValues == {Blank, Spaces, S(<<"a", "b", " ", "c", "A">>), S(<<"m", "a">>)}
DateValues == {Blank, Spaces, IsoDay, I(0)}
AgeValues == {Blank, I(0), I(5), S(<<" ", "5", "0">>), S(<<"a">>)}
MedValues == {Blank, Spaces, I(0), S(<<"a", "b", " ", "1", " ", "m", "g", "|", ",", "a">>)}
AllergyValues == {Blank, I(0), S(<<"a">>), S(<<"a", ",", ",", "b">>)}

Range(f) == {f[i] : i \in DOMAIN f}

TextAliases ==
    <<FirstAliases, LastAliases, PidAliases, GenderAliases, HospitalAliases, DoctorAliases,
      ConditionAliases, CityAliases, StateAliases, ZipAliases, CountryAliases>>

TextColumns == UNION {Range(TextAliases[i]) : i \in DOMAIN TextAliases}

Columns ==
    TextColumns \cup {"Name"} \cup Range(DobAliases) \cup Range(DoaAliases)
        \cup Range(AgeAliases) \cup Range(MedsAliases) \cup Range(AllergiesAliases)

ColumnValues(c) ==
    IF c = "Name" THEN NameValues
    ELSE IF c \in Range(DobAliases) \cup Range(DoaAliases) THEN DateValues
    ELSE IF c \in Range(AgeAliases) THEN AgeValues
    ELSE IF c \in Range(MedsAliases) THEN MedValues
    ELSE IF c \in Range(AllergiesAliases) THEN AllergyValues
    ELSE TextValues

\* the controller's variables, at rest while normalize_record is exercised
ControllerIdle ==
    /\ pc = "idle" /\ dir = <<>> /\ files = <<>> /\ idx = 0 /\ sha = 0 /\ docs = <<>>
    /\ store = <<>> /\ ledger = <<>> /\ clock = 0 /\ faults = 0 /\ envSteps = 0 /\ hist = <<>>

ctl == <<pc, dir, files, idx, sha, docs, store, ledger, clock, faults, envSteps, hist>>

NormInit == ControllerIdle /\ row = <<>> /\ out = Unset

\* the caller passes a row with one more column
SetColumn(c, v) ==
    /\ out = Unset
    /\ c \notin DOMAIN row
    /\ Cardinality(DOMAIN row) < MaxCols
    /\ row' = (c :> v) @@ row
    /\ UNCHANGED <<out, ctl>>

\* doc = normalize_record(row.to_dict(), source_file=fpath)
Normalize ==
    /\ out = Unset
    /\ out' = normalize_record(row, 1, 0)
    /\ UNCHANGED <<row, ctl>>

NormNext ==
    \/ \E c \in Columns : \E v \in ColumnValues(c) : SetColumn(c, v)
    \/ Normalize

NormSpec == NormInit /\ [][NormNext]_vars

----------------------------------------------------------------------------
(* The watched directory and the files in it.                              *)

NFiles == 2
MaxEnv == 2
MaxFaults == 1
MaxClock == 1

\* basename n stands for "healthcare_dataset-<n>.csv": string order is numeric order
Names == 1..NFiles
NoFile == 0

PatientA == S(<<"a", "1">>)

\* what pd.read_csv gives for each file content of the model
FileContent(c) ==
    CASE c = 1 -> [parses |-> TRUE,
                   rows |-> <<[PatientID |-> PatientA, DateOfAdmission |-> IsoDay,
                               Gender |-> S(<<"a">>), Hospital |-> None],
                              [PatientID |-> PatientA, DateOfAdmission |-> IsoDay,
                               Gender |-> None, Hospital |-> S(<<"a", "b">>)]>>]
      [] c = 2 -> [parses |-> TRUE,
                   rows |-> <<[PatientID |-> None, Gender |-> S(<<"b">>), Age |-> I(5)],
                              [PatientID |-> None, Gender |-> None, Age |-> I(0)]>>]
      [] OTHER -> [parses |-> FALSE, rows |-> <<>>]

Contents == {1, 2, 3}

NoSha == [t |-> "unbound"]

\* file_sha256: distinct contents have distinct digests
file_sha256(c) == [t |-> "sha256", of |-> c]

RECURSIVE SortedSeq(_)
SortedSeq(set) ==
    IF set = {} THEN <<>>
    ELSE LET m == CHOOSE x \in set : \A y \in set : x <= y
         IN <<m>> \o SortedSeq(set \ {m})

RECURSIVE Reverse(_)
Reverse(q) == IF q = <<>> THEN <<>> ELSE Append(Reverse(Tail(q)), Head(q))

\* mutant: the glob result is used in descending order
SortedFilesDescending(d) == Reverse(SortedSeq({f \in Names : d[f] # NoFile}))

\* sorted(glob.glob(os.path.join(DATA_DIR, FILE_PATTERN)))
SortedFiles(d) == SortedSeq({f \in Names : d[f] # NoFile})

----------------------------------------------------------------------------
(* The store: find_one on the ledger, UpdateOne(..., upsert=True) on the   *)
(* patient collection.  _id and the fields an upsert's insert seeds from   *)
(* the filter are left out of the documents.                               *)

\* d.get(k)
DocGet(d, k) == IF k \in DOMAIN d.m THEN d.m[k] ELSE None

\* d.get("admission", {}).get("date")
AdmissionDate(d) ==
    LET a == IF "admission" \in DOMAIN d.m THEN d.m["admission"] ELSE M(EmptyMap)
    IN IF a.t = "dict" THEN DocGet(a, "date") ELSE None

\* the filter of the UpdateOne built for d
KeyOf(d) == <<DocGet(d, "patient_id"), AdmissionDate(d)>>

\* {"patient_id": k[1], "admission.date": k[2]} against a stored document: an
\* equality with None matches a missing field as well
Matches(stored, k) == KeyOf(stored) = k

\* {"$set": d} on a stored document: the top-level fields of d are assigned,
\* the other fields of the stored document stay
SetFields(stored, d) == M(d.m @@ stored.m)

\* one UpdateOne(filter, {"$set": d}, upsert=True)
UpdateOne(coll, d) ==
    IF \E i \in 1..Len(coll) : Matches(coll[i], KeyOf(d))
    THEN LET i == CHOOSE j \in 1..Len(coll) :
                     Matches(coll[j], KeyOf(d)) /\ \A h \in 1..(j - 1) : ~Matches(coll[h], KeyOf(d))
         IN [coll EXCEPT ![i] = SetFields(coll[i], d)]
    ELSE Append(coll, d)

RECURSIVE ApplyOps(_, _, _, _)
\* the operations of ops[i..] except those in failed, applied in list order (the
\* order pymongo sends an unordered batch of one operation type in)
ApplyOps(coll, ops, failed, i) ==
    IF i > Len(ops) THEN coll
    ELSE ApplyOps(IF i \in failed THEN coll ELSE UpdateOne(coll, ops[i]), ops, failed, i + 1)

\* mutant: the lookup never finds the entry
HasProcessedNever(log, base, h) == FALSE

\* mutant: the lookup filters on the hash alone
HasProcessedBySha(log, base, h) == \E i \in 1..Len(log) : log[i].sha256 = h

\* logs.find_one({"file": base, "sha256": h})
HasProcessed(log, base, h) == \E i \in 1..Len(log) : log[i].file = base /\ log[i].sha256 = h

----------------------------------------------------------------------------
(* main().                                                                 *)

NoHist == [seen |-> <<>>, skipped |-> {}, failed |-> 0, partial |-> 0, written |-> {}, cut |-> <<>>]

Init ==
    /\ pc = "start"
    /\ dir = [f \in Names |-> NoFile]
    /\ files = <<>> /\ idx = 0 /\ sha = NoSha /\ docs = <<>>
    /\ store = <<>> /\ ledger = <<>>
    /\ clock = 0 /\ faults = 0 /\ envSteps = 0
    /\ hist = NoHist
    /\ row = <<>> /\ out = Unset

norm == <<row, out>>

\* a transient error may still be injected
MayFail == faults < MaxFaults

\* the file the for loop is at
Current == files[idx]

\* an exception leaves the for loop: the except clauses log it, then time.sleep
Abort(base) ==
    /\ pc' = "sleep"
    /\ docs' = <<>>
    /\ hist' = [hist EXCEPT !.failed = base, !.cut = <<base, sha>>]

\* the for loop moves on to the next file, or ends
Advance ==
    /\ docs' = <<>>
    /\ IF idx < Len(files)
       THEN idx' = idx + 1 /\ pc' = "hash"
       ELSE idx' = idx /\ pc' = "sleep"

\* lines 140-146: ensure_indexes runs outside any try
Startup ==
    /\ pc = "start"
    /\ \/ /\ pc' = "scan"
          /\ UNCHANGED faults
       \/ /\ MayFail
          /\ pc' = "dead"
          /\ faults' = faults + 1
    /\ UNCHANGED <<dir, files, idx, sha, docs, store, ledger, clock, envSteps, hist, norm>>

\* line 150
Scan ==
    /\ pc = "scan"
    /\ files' = SortedFiles(dir)
    /\ idx' = 1
    /\ pc' = IF files' = <<>> THEN "sleep" ELSE "hash"
    /\ hist' = [hist EXCEPT !.seen = <<>>, !.skipped = {}, !.failed = 0, !.partial = 0]
    /\ UNCHANGED <<dir, sha, docs, store, ledger, clock, faults, envSteps, norm>>

\* lines 152-154: hash the file, skip it when the ledger has (basename, sha)
HashAndLookup ==
    /\ pc = "hash"
    /\ \/ /\ sha' = file_sha256(dir[Current])
          /\ IF HasProcessed(ledger, Current, sha')
             THEN /\ Advance
                  /\ hist' = [hist EXCEPT !.seen = Append(@, Current), !.skipped = @ \cup {Current}]
             ELSE /\ pc' = "parse"
                  /\ hist' = [hist EXCEPT !.seen = Append(@, Current)]
                  /\ UNCHANGED <<idx, docs>>
          /\ UNCHANGED faults
       \/ \* open() or find_one raises
          /\ MayFail
          /\ faults' = faults + 1
          /\ sha' = sha
          /\ pc' = "sleep"
          /\ hist' = [hist EXCEPT !.seen = Append(@, Current), !.failed = Current]
          /\ UNCHANGED <<idx, docs>>
    /\ UNCHANGED <<dir, files, store, ledger, clock, envSteps, norm>>

\* lines 169-175 on content c of file base at time now: the list docs, or Raised
\* when read_csv or a normalize_record raises
ReadAndNormalize(c, base, now) ==
    LET content == FileContent(c)
        result == [i \in 1..Len(content.rows) |-> normalize_record(content.rows[i], base, now)]
    IN IF ~content.parses \/ \E i \in 1..Len(result) : result[i].t = "raised"
       THEN Raised
       ELSE L(result)

\* ReadAndNormalize, tabulated
Normalized == [c \in Contents, base \in Names, now \in 0..MaxClock |-> ReadAndNormalize(c, base, now)]

\* lines 156-175: read_csv, then normalize_record on every row
ParseAndNormalize ==
    /\ pc = "parse"
    /\ IF Normalized[dir[Current], Current, clock].t = "raised"
       THEN Abort(Current)
       ELSE /\ docs' = Normalized[dir[Current], Current, clock].l
            /\ pc' = IF docs' = <<>> THEN "ledger" ELSE "write"
            /\ hist' = IF docs' = <<>>
                       THEN [hist EXCEPT !.written = @ \cup {<<Current, sha>>}]
                       ELSE hist
    /\ UNCHANGED <<dir, files, idx, sha, store, ledger, clock, faults, envSteps, norm>>

\* mutant: the write errors of the batch are swallowed
BulkWriteSwallows(failed) == TRUE

\* col.bulk_write(ops, ordered=False) returns when no operation failed and raises
\* BulkWriteError (a PyMongoError) after trying every operation otherwise
BulkWriteReturns(failed) == failed = {}

\* lines 177-188: the operations outside failed are applied
BulkWrite ==
    /\ pc = "write"
    /\ \E failed \in SUBSET (1..Len(docs)) :
        /\ failed # {} => MayFail
        /\ faults' = IF failed # {} THEN faults + 1 ELSE faults
        /\ store' = ApplyOps(store, docs, failed, 1)
        /\ IF BulkWriteReturns(failed)
           THEN /\ pc' = "ledger"
                /\ docs' = docs
                /\ hist' = [hist EXCEPT
                              !.written = IF failed = {} THEN @ \cup {<<Current, sha>>} ELSE @,
                              !.partial = IF failed # {} /\ failed # 1..Len(docs) THEN Current ELSE @]
           ELSE /\ pc' = "sleep"
                /\ docs' = <<>>
                /\ hist' = [hist EXCEPT
                              !.failed = Current,
                              !.cut = <<Current, sha>>,
                              !.partial = IF failed # 1..Len(docs) THEN Current ELSE @]
    /\ UNCHANGED <<dir, files, idx, sha, ledger, clock, envSteps, norm>>

\* lines 190-196
LedgerInsert ==
    /\ pc = "ledger"
    /\ \/ /\ ledger' = Append(ledger, [file |-> Current, sha256 |-> sha, rows |-> Len(docs), ts |-> clock])
          /\ Advance
          /\ hist' = [hist EXCEPT !.cut = IF @ = <<Current, sha>> THEN <<>> ELSE @]
          /\ UNCHANGED faults
       \/ \* insert_one raises
          /\ MayFail
          /\ faults' = faults + 1
          /\ Abort(Current)
          /\ UNCHANGED <<ledger, idx>>
    /\ UNCHANGED <<dir, files, sha, store, clock, envSteps, norm>>

\* line 203
Sleep ==
    /\ pc = "sleep"
    /\ pc' = "scan"
    /\ clock' = IF clock < MaxClock THEN clock + 1 ELSE clock
    /\ UNCHANGED <<dir, files, idx, sha, docs, store, ledger, faults, envSteps, hist, norm>>

\* the process is killed and started again: the collections survive
Crash ==
    /\ pc \notin {"start", "dead"}
    /\ MayFail
    /\ faults' = faults + 1
    /\ pc' = "start"
    /\ files' = <<>> /\ idx' = 0 /\ sha' = NoSha /\ docs' = <<>>
    /\ hist' = [hist EXCEPT !.seen = <<>>, !.skipped = {}, !.failed = 0, !.partial = 0,
                            !.cut = IF pc \in {"parse", "write", "ledger"} THEN <<Current, sha>> ELSE @]
    /\ UNCHANGED <<dir, store, ledger, clock, envSteps, norm>>

\* a file is written to, or removed from (c = NoFile), the watched directory,
\* before the process starts or while it sleeps between two scans
PutFile(f, c) ==
    /\ pc \in {"start", "sleep"}
    /\ envSteps < MaxEnv
    /\ dir[f] # c
    /\ dir' = [dir EXCEPT ![f] = c]
    /\ envSteps' = envSteps + 1
    /\ UNCHANGED <<pc, files, idx, sha, docs, store, ledger, clock, faults, hist, norm>>

Controller ==
    \/ Startup
    \/ Scan
    \/ HashAndLookup
    \/ ParseAndNormalize
    \/ BulkWrite
    \/ LedgerInsert
    \/ Sleep

Next ==
    \/ Controller
    \/ Crash
    \/ \E f \in Names : \E c \in Contents \cup {NoFile} : PutFile(f, c)

Spec == Init /\ [][Next]_vars

\* the process keeps running: a step of main() that can be taken is taken
FairSpec == Init /\ [][Next]_vars /\ WF_vars(Controller)

----------------------------------------------------------------------------
(* Properties of main().                                                   *)

\* the ledger holds an entry for (base, h)
HasEntry(base, h) == \E i \in 1..Len(ledger) : ledger[i].file = base /\ ledger[i].sha256 = h

InFile == pc \in {"parse", "write", "ledger"}

\* C1: a file whose (basename, sha256) is in the ledger is skipped: the loop is
\* never past the lookup (parsing, writing, ledgering) for such a file, and the
\* ledger holds at most one entry per (basename, sha256).
InvC1 ==
    /\ InFile => sha = file_sha256(dir[Current]) /\ ~HasEntry(Current, sha)
    /\ \A i, j \in 1..Len(ledger) :
          (ledger[i].file = ledger[j].file /\ ledger[i].sha256 = ledger[j].sha256) => i = j

\* a poll cycle has ended in which a ledgered, unchanged file was skipped
WitC1 ==
    /\ pc = "sleep"
    /\ \E f \in hist.skipped : dir[f] # NoFile /\ HasEntry(f, file_sha256(dir[f]))

InvC3 ==
    /\ pc \in {"hash", "parse", "write", "ledger"} =>
          \A f \in hist.skipped : HasEntry(f, file_sha256(dir[f]))
    /\ \A i \in 1..Len(ledger) :
          /\ <<ledger[i].file, ledger[i].sha256>> \in hist.written
          /\ ledger[i].rows = Len(FileContent(ledger[i].sha256.of).rows)
    /\ pc = "write" => Len(docs) = Len(FileContent(dir[Current]).rows)
    /\ hist.cut # <<>> => ~HasEntry(hist.cut[1], hist.cut[2])

\* a file whose processing was cut short is not ledgered and is written again, in full
WitC3 ==
    /\ pc = "ledger"
    /\ hist.cut = <<Current, sha>>
    /\ ~HasEntry(Current, sha)
    /\ Len(docs) = Len(FileContent(dir[Current]).rows) /\ Len(docs) > 0

\* the last document of docs with the key of docs[i]
LastWithKey(i) ==
    docs[CHOOSE j \in 1..Len(docs) :
            /\ KeyOf(docs[j]) = KeyOf(docs[i])
            /\ \A h \in (j + 1)..Len(docs) : KeyOf(docs[h]) # KeyOf(docs[i])]

\* C4, as stated: once the batch has been written, the store holds for each key
\* one document, and it is exactly the last row's document with that key.
CexC4 ==
    (pc = "ledger" /\ docs # <<>>) =>
        \A i \in 1..Len(docs) :
            /\ Cardinality({n \in 1..Len(store) : Matches(store[n], KeyOf(docs[i]))}) = 1
            /\ \A n \in 1..Len(store) :
                  Matches(store[n], KeyOf(docs[i])) => store[n] = LastWithKey(i)

\* C6, as stated: the process is never terminated by an error.
CexC6 == pc # "dead"

\* C7, as stated: a file whose batch write partly succeeded has its ledger entry
\* when the poll cycle ends.
CexC7 == (pc = "sleep" /\ hist.partial # 0) => HasEntry(hist.partial, sha)

\* C8, as stated: a file whose own processing succeeds is eventually ledgered
\* (unless it is replaced first, or the process has died at startup).
CexC8 ==
    \A f \in Names : \A c \in {1, 2} :
        (dir[f] = c) ~> (dir[f] # c \/ HasEntry(f, file_sha256(c)) \/ pc = "dead")

Ascending(q) == \A i, j \in 1..Len(q) : i < j => q[i] < q[j]

\* C10: the files of a cycle are taken in ascending order; once one of them has
\* raised, the cycle is over and no later file is hashed; the step that ends the
\* cycle leaves the ledger as it is and removes nothing from the collection.
ThmC10 ==
    /\ [](/\ Ascending(files)
          /\ Len(hist.seen) <= Len(files)
          /\ hist.seen = SubSeq(files, 1, Len(hist.seen))
          /\ hist.failed # 0 =>
                /\ pc \in {"sleep", "scan"}
                /\ hist.seen # <<>> /\ hist.seen[Len(hist.seen)] = hist.failed)
    /\ [][(hist'.failed # 0 /\ hist.failed = 0) =>
             /\ pc' = "sleep"
             /\ ledger' = ledger
             /\ Len(store') >= Len(store)
             /\ pc # "write" => store' = store]_vars

\* a cycle has ended on an exception with a later file left unhashed
WitC10 ==
    /\ pc = "sleep"
    /\ hist.failed # 0
    /\ Len(hist.seen) < Len(files)

----------------------------------------------------------------------------
(* Properties of normalize_record.                                         *)

RECURSIVE NoEmpty(_)
\* no None, "", [] or {} at any depth
NoEmpty(v) ==
    CASE v.t = "none" -> FALSE
      [] v.t = "str" -> v.s # <<>>
      [] v.t = "list" -> v.l # <<>> /\ \A i \in 1..Len(v.l) : NoEmpty(v.l[i])
      [] v.t = "dict" -> DOMAIN v.m # {} /\ \A k \in DOMAIN v.m : NoEmpty(v.m[k])
      [] OTHER -> TRUE

\* C5, as stated: the returned document holds no null, "", [] or {} at any depth.
CexC5 == out.t = "dict" => NoEmpty(out)

\* a present value other than missing and ""
NonEmptyValue(v) == ~IsNone(v) /\ ~IsEmptyStr(v)

\* the value of the first alias with a non-empty value, None when there is none
FirstNonEmpty(r, cols) ==
    IF \E i \in 1..Len(cols) : NonEmptyValue(Get(r, cols[i]))
    THEN Get(r, cols[CHOOSE i \in 1..Len(cols) :
                        /\ NonEmptyValue(Get(r, cols[i]))
                        /\ \A j \in 1..(i - 1) : ~NonEmptyValue(Get(r, cols[j]))])
    ELSE None

\* the scalar text fields: aliases, place in the document, conversion
TextFields ==
    {<<PidAliases, <<"patient_id">>, "strip">>,
     <<GenderAliases, <<"gender">>, "title">>,
     <<HospitalAliases, <<"admission", "hospital">>, "title">>,
     <<DoctorAliases, <<"admission", "doctor">>, "title">>,
     <<ConditionAliases, <<"medical_condition">>, "title">>,
     <<CityAliases, <<"address", "city">>, "title">>,
     <<StateAliases, <<"address", "state">>, "upper">>,
     <<ZipAliases, <<"address", "zip">>, "strip">>,
     <<CountryAliases, <<"address", "country">>, "title">>}

Converted(v, how) ==
    LET x == Strip(Str(v))
    IN S(IF how = "title" THEN Title(x) ELSE IF how = "upper" THEN Upper(x) ELSE x)

\* the value at a path of one or two keys, None when absent
AtPath(d, path) ==
    IF Len(path) = 1 THEN DocGet(d, path[1])
    ELSE IF path[1] \in DOMAIN d.m THEN DocGet(d.m[path[1]], path[2]) ELSE None

\* C9, as stated: each field is the converted value of the first alias whose
\* value is non-empty (0 included), and is absent only when there is none.
CexC9 ==
    out.t = "dict" =>
        \A fld \in TextFields :
            LET v == FirstNonEmpty(row, fld[1])
            IN IF IsNone(v) THEN IsNone(AtPath(out, fld[2]))
               ELSE AtPath(out, fld[2]) = Converted(v, fld[3])

====
